---- MODULE Spec2Model ----
(***************************************************************************)
(* State-machine model of vimango_mcp: the tool handlers of server.py      *)
(* (create_note, update_note, get_note, search_notes, list_contexts,       *)
(* list_folders) over the database operations of db.py (VimangoDatabase),  *)
(* with the external vimango/sync process that writes the same SQLite file.*)
(*                                                                         *)
(* Optional values (Python None / SQL NULL) are sequences: None is <<>>,   *)
(* a present value v is <<v>>.  Text a caller types character by character *)
(* (the search query) is a sequence of one-character strings.              *)
(***************************************************************************)
EXTENDS Integers, Sequences, FiniteSets, TLC

(* ------------------------------ bounds --------------------------------- *)
MaxNotes == 2
MaxTid == 2
MaxMatches == 3
MaxQueryLen == 3
MaxClock == 2

(* ------------------------- program constants --------------------------- *)
DEFAULT_CONTEXT_UUID == "00000000-0000-0000-0000-000000000001"
DEFAULT_FOLDER_UUID == "00000000-0000-0000-0000-000000000002"
WORK_CONTEXT_UUID == "ctx-work"
HOME_FOLDER_UUID == "fld-home"
MIN_QUERY_LEN == 3
DEFAULT_LIMIT == 5

None == <<>>
Some(v) == <<v>>

\* text sqlite3 cannot bind: a str with a lone surrogate has no UTF-8 encoding
LoneSurrogate == "\\ud800"
Unencodable == {LoneSurrogate}
\* an integer sqlite3 cannot bind: one beyond 64 bits, such as 2**63.  The
\* checker's integers have 32 bits, so the largest of them stands for it.
INT64_OVERFLOW == 2147483647

(* ------------------------------ inputs --------------------------------- *)
Titles == {"Buy milk", "Call mom"}
Bodies == {"2%"}
ContextNames == {"none", "work", "nope"}
FolderNames == {"none", "nope"}
Whitespace == {" "}
Chars == {" ", "a"}
Queries == UNION {[1..n -> Chars] : n \in 0..MaxQueryLen}
Limits == {0, 2}
Tids == 1..MaxTid
IndexTids == {None} \cup {Some(t) : t \in Tids}
\* the index's ranking for a query: it holds one row for a sync id
IndexAnswers ==
    {m \in UNION {[1..n -> IndexTids] : n \in 0..MaxMatches} :
        \A i, j \in 1..Len(m) : i # j => m[i] # m[j]}
WriteFaults == {"none", "execute", "commit"}
ReadFaults == {"none", "execute"}

\* "delete": a rollback journal, a reader's lock keeps writers from committing;
\* "wal": a write-ahead log, a reader keeps the snapshot it started with
JournalModes == {"delete", "wal"}

\* create_note as in the spec's example, in every context and folder named
CreateArgs ==
    [title : {"Buy milk"}, note : Bodies, context : ContextNames,
     folder : FolderNames, star : {FALSE}]

NoFields == [context |-> None, folder |-> None, title |-> None, star |-> None]

\* the fields an update_note call supplies: none, one, or several of them
UpdateFields ==
    {NoFields,
     [NoFields EXCEPT !.star = Some(FALSE)],
     [NoFields EXCEPT !.title = Some("Call mom"), !.star = Some(TRUE)],
     [NoFields EXCEPT !.context = Some("work")],
     [NoFields EXCEPT !.context = Some("nope")],
     [NoFields EXCEPT !.folder = Some("none")],
     [NoFields EXCEPT !.folder = Some("nope")],
     [NoFields EXCEPT !.context = Some("work"), !.folder = Some("nope")],
     [NoFields EXCEPT !.context = Some("nope"), !.folder = Some("none")]}

UpdateArgs ==
    {[note_id |-> i, context |-> f.context, folder |-> f.folder,
      title |-> f.title, star |-> f.star] :
        i \in 1..(MaxNotes + 1), f \in UpdateFields}

GetArgs ==
    [note_id : {None} \cup {Some(i) : i \in 1..(MaxNotes + 1)},
     note_tid : {None} \cup {Some(t) : t \in Tids}]

VARIABLES
    task,            \* main_db: the task table, rows in rowid order
    context,         \* main_db: the context table
    folder,          \* main_db: the folder table
    in_transaction,  \* main_db: a write transaction is open on the connection
    fts_db,          \* "connected" or "None": VimangoDatabase.fts_db
    now,             \* the value datetime('now') yields
    last,            \* the tool call just completed and what it returned
    call,            \* the tool call in progress, between two of its statements
    main_db,         \* "connected" or "closed": VimangoDatabase.main_db
    journal_mode,    \* main_db: the journal mode of the file, which vimango sets
    snapshot,        \* main_db: the tables as the open transaction first read them
    schema_loaded,   \* main_db: the connection holds the schema of the file
    schema_changed,  \* main_db: a read of the schema has failed and nothing has
                     \* been committed since (the next rollback drops the schema)
    busy,            \* main_db: the last statement of the open transaction failed
                     \* on the lock (the error code the connection still holds)
    cached,          \* main_db: the INSERT and UPDATE statements in the statement cache
    malformed        \* the callers send arguments sqlite3 cannot bind

vars == <<task, context, folder, in_transaction, fts_db, now, last, call, main_db,
          journal_mode, snapshot, schema_loaded, schema_changed, busy, cached,
          malformed>>

Idle == [op |-> "none"]
NoCall == [pc |-> "none"]

(* ------------------------------ helpers -------------------------------- *)
Max(S) == CHOOSE x \in S : \A y \in S : y <= x
Min2(a, b) == IF a <= b THEN a ELSE b

\* SQL equality: NULL equals nothing, not even NULL
SqlEq(a, b) == a # None /\ b # None /\ a = b

RECURSIVE Flatten(_)
\* the concatenation of a sequence of sequences
Flatten(ss) == IF ss = <<>> THEN <<>> ELSE Head(ss) \o Flatten(Tail(ss))

\* cursor.fetchone()
FetchOne(rows) == IF rows = <<>> THEN None ELSE Some(rows[1])

(* ------------------------- db.py: transactions ------------------------- *)
\* the tables of the file as last committed
Tables == [task |-> task, context |-> context, folder |-> folder]

\* the tables as a SELECT on main_db sees them: inside an open transaction that
\* has read, the tables as they were at its first read
Seen == IF snapshot = None THEN Tables ELSE snapshot[1]

\* The connection as a handler sees it: the task table it writes, the table as
\* last committed, whether a transaction is open, what the transaction has
\* read, and what sqlite3 keeps on the connection: the schema, the mark of a
\* failed read of the schema, the error code, the statement cache.
OpenDb ==
    [task |-> task, saved |-> task, in_transaction |-> in_transaction,
     snapshot |-> snapshot, schema_loaded |-> schema_loaded,
     schema_changed |-> schema_changed, busy |-> busy, cached |-> cached]

\* the other process holds the file locked as a statement that is not in the
\* cache is prepared and the schema is still to be read: on a rollback-journal
\* file the statement fails before a transaction is opened or a parameter bound
prepare_fails(db, sql, fault) ==
    sql \notin db.cached /\ fault = "execute" /\ ~db.schema_loaded
        /\ journal_mode = "delete"

\* sqlite3 takes the statement from the cache of the connection; one that is
\* not there is prepared, which reads the schema the first time and clears the
\* error code, and is put in the cache
prepare(db, sql) ==
    IF sql \in db.cached THEN db
    ELSE [db EXCEPT !.schema_loaded = TRUE, !.busy = FALSE, !.cached = @ \cup {sql}]

\* sqlite3 opens a transaction implicitly before an INSERT or UPDATE; one that
\* is open already stays open.  The transaction takes no lock and reads nothing
\* until a statement is stepped.
begin(db) ==
    IF db.in_transaction THEN db
    ELSE [db EXCEPT !.in_transaction = TRUE, !.busy = FALSE]

\* a statement finds the file locked: the connection holds the error code while
\* the transaction stays open.  On a rollback-journal file the schema that was
\* still to be read stays unread and the failed read is marked; a write-ahead
\* log lets the schema be read under the lock.
locked(db) ==
    IF journal_mode = "delete"
    THEN [db EXCEPT !.schema_changed = @ \/ ~db.schema_loaded,
                    !.busy = db.in_transaction]
    ELSE [db EXCEPT !.schema_loaded = TRUE, !.busy = db.in_transaction]

\* a SELECT is stepped: the first one of an open transaction fixes what the
\* transaction sees (and holds a shared lock on a rollback-journal file); one
\* outside a transaction ends a transaction of its own, which commits
read(db) ==
    [db EXCEPT !.schema_loaded = TRUE,
               !.busy = FALSE,
               !.schema_changed = @ /\ db.in_transaction,
               !.snapshot = IF db.in_transaction /\ @ = None THEN Some(Tables) ELSE @]

\* the file has been committed to since the transaction first read it: a write
\* in the transaction fails (SQLITE_BUSY_SNAPSHOT, "database is locked")
stale(db) == db.snapshot # None /\ db.snapshot[1] # Tables

commit(db) ==
    [db EXCEPT !.saved = db.task, !.in_transaction = FALSE, !.snapshot = None,
               !.schema_changed = FALSE, !.busy = FALSE]

\* Connection.rollback() does nothing when no transaction is open.  Rolling a
\* transaction back drops the schema if a read of it has failed since the last
\* commit.
rollback(db) ==
    IF ~db.in_transaction THEN db
    ELSE [db EXCEPT !.task = db.saved, !.in_transaction = FALSE, !.snapshot = None,
                    !.schema_loaded = @ /\ ~db.schema_changed,
                    !.schema_changed = FALSE, !.busy = FALSE]

\* sqlite3 binds the parameters after it has opened the transaction; binding a
\* str it cannot encode raises UnicodeEncodeError, an int beyond 64 bits
\* OverflowError: neither is a sqlite3.DatabaseError
encodable(s) == s \notin Unencodable
fits_int64(n) == n < INT64_OVERFLOW

\* a parameter is bound: the error code is cleared
bind(db) == [db EXCEPT !.busy = FALSE]

\* The first parameter cannot be encoded while the connection holds the error
\* code of a failed statement: the failure is reported with that code, as a
\* sqlite3.OperationalError ("database is locked").
bind_raises_locked(db, first) == db.busy /\ ~encodable(first)

\* the statement is stepped: a cached statement is prepared again if the schema
\* has been dropped
step(db) == [db EXCEPT !.schema_loaded = TRUE]

(* ------------------------- db.py: insert_note -------------------------- *)
lastrowid(rows) == IF rows = <<>> THEN 1 ELSE Max({rows[i].id : i \in 1..Len(rows)}) + 1

NewRow_swapped(id, title, note, context_uuid, folder_uuid, star) ==
    [id |-> id, tid |-> None, title |-> title, note |-> note,
     context_uuid |-> folder_uuid, folder_uuid |-> context_uuid, star |-> star,
     deleted |-> FALSE, archived |-> FALSE, added |-> now, modified |-> now]

\* INSERT INTO task (title, note, folder_uuid, context_uuid, star, added, modified)
NewRow(id, title, note, context_uuid, folder_uuid, star) ==
    [id |-> id, tid |-> None, title |-> title, note |-> note,
     context_uuid |-> context_uuid, folder_uuid |-> folder_uuid, star |-> star,
     deleted |-> FALSE, archived |-> FALSE, added |-> now, modified |-> now]

\* the text of the statement, by which the cache knows it
INSERT_SQL == <<"INSERT INTO task">>

\* fault: what the store does to the statement ("execute": the file is locked
\* by the other process and the INSERT raises a DatabaseError, "commit": the
\* commit does).  The parameters are bound in the order title, note,
\* folder_uuid, context_uuid, star.
insert_note(db, title, note, context_uuid, folder_uuid, star, fault) ==
    LET begun == begin(prepare(db, INSERT_SQL))
        bound == bind(begun)
        task_id == lastrowid(bound.task)
        inserted == [step(bound) EXCEPT !.task =
                        Append(@, NewRow(task_id, title, note, context_uuid, folder_uuid, star))]
    IN  IF prepare_fails(db, INSERT_SQL, fault)
        THEN [db |-> rollback(locked(db)), raised |-> TRUE, value |-> 0]
        ELSE IF bind_raises_locked(begun, title)
        THEN [db |-> rollback(begun), raised |-> TRUE, value |-> 0]
        ELSE IF ~encodable(title)
        THEN [db |-> begun, raised |-> TRUE, value |-> 0]
        ELSE IF ~encodable(note)
        THEN [db |-> bound, raised |-> TRUE, value |-> 0]
        ELSE IF fault = "execute" \/ stale(bound)
        THEN [db |-> rollback(locked(bound)), raised |-> TRUE, value |-> 0]
        ELSE IF fault = "commit"
        THEN [db |-> rollback(inserted), raised |-> TRUE, value |-> 0]
        ELSE [db |-> commit(inserted), raised |-> FALSE, value |-> task_id]

(* --------------------- db.py: name resolution -------------------------- *)
get_context_uuid_by_name(name) ==
    LET result == FetchOne(SelectSeq(Seen.context, LAMBDA r : r.title = name /\ ~r.deleted))
    IN  IF result # None THEN Some(result[1].uuid) ELSE None

get_folder_uuid_by_name(name) ==
    LET result == FetchOne(SelectSeq(Seen.folder, LAMBDA r : r.title = name /\ ~r.deleted))
    IN  IF result # None THEN Some(result[1].uuid) ELSE None

(* ------------------- db.py: list_contexts / list_folders --------------- *)
\* COLLATE NOCASE compares text with its ASCII upper-case letters folded to lower
\* case; the table covers the names in use
nocase(s) ==
    CASE s = "Work" -> "work"
      [] s = "None" -> "none"
      [] s = "Home" -> "home"
      [] OTHER -> s

\* the folded names in ascending order
NocaseOrder == <<"home", "none", "nope", "work">>

\* SELECT ... FROM context WHERE deleted=0 ORDER BY title COLLATE NOCASE
list_contexts ==
    Flatten([k \in 1..Len(NocaseOrder) |->
        SelectSeq(Seen.context, LAMBDA r : ~r.deleted /\ nocase(r.title) = NocaseOrder[k])])

list_folders ==
    Flatten([k \in 1..Len(NocaseOrder) |->
        SelectSeq(Seen.folder, LAMBDA r : ~r.deleted /\ nocase(r.title) = NocaseOrder[k])])

(* ------------------- db.py: joins for display data --------------------- *)
\* LEFT JOIN context ON context.uuid = task.context_uuid, COALESCE(title, 'none')
context_title(uuid) ==
    LET hit == FetchOne(SelectSeq(Seen.context, LAMBDA r : r.uuid = uuid))
    IN  IF hit = None THEN "none" ELSE hit[1].title

folder_title(uuid) ==
    LET hit == FetchOne(SelectSeq(Seen.folder, LAMBDA r : r.uuid = uuid))
    IN  IF hit = None THEN "none" ELSE hit[1].title

\* the dictionary get_note_by_id and get_note_by_tid build from a row
NoteDict(r) ==
    [id |-> r.id, tid |-> r.tid, title |-> r.title, note |-> r.note,
     context_title |-> context_title(r.context_uuid),
     folder_title |-> folder_title(r.folder_uuid)]

\* WHERE task.tid = ? AND task.deleted = 0 AND task.archived = 0

GetByTidWhere(r, tid) == SqlEq(r.tid, Some(tid)) /\ ~r.deleted /\ ~r.archived

get_note_by_tid(tid) ==
    LET row == FetchOne(SelectSeq(Seen.task, LAMBDA r : GetByTidWhere(r, tid)))
    IN  IF row = None THEN None ELSE Some(NoteDict(row[1]))

\* WHERE task.id = ? AND task.deleted = 0 AND task.archived = 0
GetByIdWhere(r, note_id) == r.id = note_id /\ ~r.deleted /\ ~r.archived

get_note_by_id(note_id) ==
    LET row == FetchOne(SelectSeq(Seen.task, LAMBDA r : GetByIdWhere(r, note_id)))
    IN  IF row = None THEN None ELSE Some(NoteDict(row[1]))

(* ----------------------- db.py: find_notes ----------------------------- *)
RECURSIVE lstrip(_)
lstrip(s) == IF s # <<>> /\ Head(s) \in Whitespace THEN lstrip(Tail(s)) ELSE s

RECURSIVE rstrip(_)
rstrip(s) ==
    IF s # <<>> /\ s[Len(s)] \in Whitespace THEN rstrip(SubSeq(s, 1, Len(s) - 1)) ELSE s

strip_missing(s) == s

\* query.strip()
strip(s) == rstrip(lstrip(s))

\* SELECT tid FROM fts WHERE fts MATCH ? ORDER BY bm25(...) LIMIT ?
\* matches is the index's whole ranking for the query
fts_select(matches, limit) == SubSeq(matches, 1, Min2(limit, Len(matches)))

fts_execute_swallowed(fts_fails, matches, limit) ==
    IF fts_fails THEN [raised |-> "no", tids |-> <<>>]
    ELSE [raised |-> "no", tids |-> fts_select(matches, limit)]

\* self.fts_db.execute(...) under try/except, then cursor.fetchall()
fts_execute(fts_fails, matches, limit) ==
    IF fts_fails THEN [raised |-> "RuntimeError", tids |-> <<>>]
    ELSE [raised |-> "no", tids |-> fts_select(matches, limit)]

\* list(enumerate(tids, start=1))
ranked_tids(tids) == [k \in 1..Len(tids) |-> [rank |-> k, tid |-> tids[k]]]

\* WHERE task.deleted = 0 AND task.archived = 0
FindWhere(r) == ~r.deleted /\ ~r.archived

\* the result rows one task row joins to: JOIN task ON task.tid = matches.tid
JoinTask(r, ranked) ==
    LET ms == SelectSeq(ranked, LAMBDA m : SqlEq(r.tid, m.tid) /\ FindWhere(r))
    IN  [i \in 1..Len(ms) |->
            [rank |-> ms[i].rank, id |-> r.id, tid |-> r.tid, title |-> r.title,
             context_title |-> context_title(r.context_uuid),
             folder_title |-> folder_title(r.folder_uuid)]]

\* FROM matches JOIN task ... WHERE ..., before it is ordered
Join(ranked) ==
    Flatten([i \in 1..Len(Seen.task) |-> JoinTask(Seen.task[i], ranked)])

OrderByRank_missing(rows, n) == rows

\* ORDER BY matches.rank, the ranks being 1..n
OrderByRank(rows, n) ==
    Flatten([k \in 1..n |-> SelectSeq(rows, LAMBDA x : x.rank = k)])

\* main_fails: the join on main_db raises (the file locked beyond the timeout)
find_notes(query, limit, fts_fails, main_fails, matches) ==
    LET cleaned_query == strip(query)
        lim == IF limit <= 0 THEN DEFAULT_LIMIT ELSE limit
        cursor == fts_execute(fts_fails, matches, lim)
        tids == cursor.tids
    IN  IF Len(cleaned_query) < MIN_QUERY_LEN
        THEN [db |-> OpenDb, raised |-> "ValueError", index |-> <<>>, value |-> <<>>]
        ELSE IF fts_db = "None"
        THEN [db |-> OpenDb, raised |-> "RuntimeError", index |-> <<>>, value |-> <<>>]
        ELSE IF cursor.raised # "no"
        THEN [db |-> OpenDb, raised |-> cursor.raised, index |-> <<>>, value |-> <<>>]
        ELSE IF tids = <<>>
        THEN [db |-> OpenDb, raised |-> "no", index |-> tids, value |-> <<>>]
        ELSE IF main_fails
        THEN [db |-> locked(OpenDb), raised |-> "OperationalError", index |-> <<>>,
              value |-> <<>>]
        ELSE [db |-> read(OpenDb), raised |-> "no", index |-> tids,
              value |-> OrderByRank(Join(ranked_tids(tids)), Len(tids))]

(* ------------------- db.py: update_note_metadata ----------------------- *)
\* an update that writes a default for a field the caller did not supply
UpdatedRow_defaults(r, context_uuid, folder_uuid, title, star) ==
    [r EXCEPT !.context_uuid = IF context_uuid # None THEN context_uuid[1] ELSE @,
              !.folder_uuid = IF folder_uuid # None THEN folder_uuid[1] ELSE @,
              !.title = IF title # None THEN title[1] ELSE @,
              !.star = IF star # None THEN star[1] ELSE FALSE,
              !.modified = now]

\* SET context_uuid = ?, folder_uuid = ?, title = ?, star = ?, modified = datetime('now'),
\* with only the supplied columns listed
UpdatedRow(r, context_uuid, folder_uuid, title, star) ==
    [r EXCEPT !.context_uuid = IF context_uuid # None THEN context_uuid[1] ELSE @,
              !.folder_uuid = IF folder_uuid # None THEN folder_uuid[1] ELSE @,
              !.title = IF title # None THEN title[1] ELSE @,
              !.star = IF star # None THEN star[1] ELSE @,
              !.modified = now]

\* WHERE id = ? AND deleted = 0
UpdateWhere(r, note_id) == r.id = note_id /\ ~r.deleted

\* the text of the statement: UPDATE task SET followed by the supplied columns
\* in the order context_uuid, folder_uuid, title, star
update_sql(context_uuid, folder_uuid, title, star) ==
    <<"UPDATE task SET">>
        \o (IF context_uuid # None THEN <<"context_uuid">> ELSE <<>>)
        \o (IF folder_uuid # None THEN <<"folder_uuid">> ELSE <<>>)
        \o (IF title # None THEN <<"title">> ELSE <<>>)
        \o (IF star # None THEN <<"star">> ELSE <<>>)

\* The parameters are bound in the order of the columns, the note id last: the
\* title is the first of them when neither a context nor a folder is supplied.
update_note_metadata(db, note_id, context_uuid, folder_uuid, title, star, fault) ==
    LET sql == update_sql(context_uuid, folder_uuid, title, star)
        begun == begin(prepare(db, sql))
        bound == bind(begun)
        title_first == context_uuid = None /\ folder_uuid = None /\ title # None
        rowcount == Len(SelectSeq(bound.task, LAMBDA r : UpdateWhere(r, note_id)))
        updated == [step(bound) EXCEPT !.task =
                       [i \in 1..Len(@) |->
                           IF UpdateWhere(@[i], note_id)
                           THEN UpdatedRow(@[i], context_uuid, folder_uuid, title, star)
                           ELSE @[i]]]
    IN  IF context_uuid = None /\ folder_uuid = None /\ title = None /\ star = None
        THEN [db |-> db, raised |-> FALSE, value |-> FALSE]
        ELSE IF prepare_fails(db, sql, fault)
        THEN [db |-> rollback(locked(db)), raised |-> TRUE, value |-> FALSE]
        ELSE IF title_first /\ bind_raises_locked(begun, title[1])
        THEN [db |-> rollback(begun), raised |-> TRUE, value |-> FALSE]
        ELSE IF title_first /\ ~encodable(title[1])
        THEN [db |-> begun, raised |-> TRUE, value |-> FALSE]
        ELSE IF (title # None /\ ~encodable(title[1])) \/ ~fits_int64(note_id)
        THEN [db |-> bound, raised |-> TRUE, value |-> FALSE]
        ELSE IF fault = "execute" \/ stale(bound)
        THEN [db |-> rollback(locked(bound)), raised |-> TRUE, value |-> FALSE]
        ELSE IF fault = "commit"
        THEN [db |-> rollback(updated), raised |-> TRUE, value |-> FALSE]
        ELSE [db |-> commit(updated), raised |-> FALSE, value |-> rowcount > 0]

(* --------------------- server.py: call_tool ---------------------------- *)
\* A handler runs one SQL statement at a time, each its own transaction.  The
\* call in progress records the statement it is about to run (pc) and the
\* identities it has resolved; a handler operator runs that statement and
\* either returns the answer or moves on to the next statement.
StartCall(op, a) ==
    [pc |-> "start", op |-> op, args |-> a, context_uuid |-> None, folder_uuid |-> None]

\* a lookup has answered and the call moves on to its next statement
Continue(c) ==
    [call |-> c, db |-> read(OpenDb), returned |-> FALSE, outcome |-> "none", value |-> 0]

Return(db, outcome, value) ==
    [call |-> NoCall, db |-> db, returned |-> TRUE, outcome |-> outcome, value |-> value]

\* create_note with an unresolved folder silently replaced by the reserved one
create_note_defaulting(c, fault) ==
    LET a == c.args
        context_uuid == get_context_uuid_by_name(a.context)
        found == get_folder_uuid_by_name(a.folder)
        folder_uuid == IF found = None THEN Some(DEFAULT_FOLDER_UUID) ELSE found
        r == insert_note(OpenDb, a.title, a.note, c.context_uuid[1], c.folder_uuid[1],
                         a.star, fault)
    IN  IF c.pc # "write" /\ fault = "execute"
        THEN Return(locked(OpenDb), "raised", 0)
        ELSE IF c.pc = "start"
        THEN IF context_uuid = None
             THEN Return(read(OpenDb), "not_found", 0)
             ELSE Continue([c EXCEPT !.pc = "folder", !.context_uuid = context_uuid])
        ELSE IF c.pc = "folder"
        THEN Continue([c EXCEPT !.pc = "write", !.folder_uuid = folder_uuid])
        ELSE IF r.raised
        THEN Return(r.db, "error", 0)
        ELSE Return(r.db, "created", r.value)

\* name == "create_note": the context lookup, the folder lookup, the insert.
\* The lookups are made outside any try: a lookup the store fails (fault
\* "execute": sqlite3.OperationalError, the file locked beyond the timeout)
\* raises out of call_tool.
create_note(c, fault) ==
    LET a == c.args
        context_uuid == get_context_uuid_by_name(a.context)
        folder_uuid == get_folder_uuid_by_name(a.folder)
        r == insert_note(OpenDb, a.title, a.note, c.context_uuid[1], c.folder_uuid[1],
                         a.star, fault)
    IN  IF c.pc # "write" /\ fault = "execute"
        THEN Return(locked(OpenDb), "raised", 0)
        ELSE IF c.pc = "start"
        THEN IF context_uuid = None
             THEN Return(read(OpenDb), "not_found", 0)
             ELSE Continue([c EXCEPT !.pc = "folder", !.context_uuid = context_uuid])
        ELSE IF c.pc = "folder"
        THEN IF folder_uuid = None
             THEN Return(read(OpenDb), "not_found", 0)
             ELSE Continue([c EXCEPT !.pc = "write", !.folder_uuid = folder_uuid])
        ELSE IF r.raised
        THEN Return(r.db, "error", 0)
        ELSE Return(r.db, "created", r.value)

\* update_note from its folder lookup on, a lookup made only if a folder is
\* supplied
update_note_folder(c, fault) ==
    LET a == c.args
        folder_uuid == get_folder_uuid_by_name(a.folder[1])
        r == update_note_metadata(OpenDb, a.note_id, c.context_uuid, c.folder_uuid,
                                  a.title, a.star, fault)
    IN  IF c.pc # "write" /\ a.folder # None
        THEN IF fault = "execute"
             THEN Return(locked(OpenDb), "raised", 0)
             ELSE IF folder_uuid = None
             THEN Return(read(OpenDb), "not_found", 0)
             ELSE Continue([c EXCEPT !.pc = "write", !.folder_uuid = folder_uuid])
        ELSE IF r.raised
        THEN Return(r.db, "error", 0)
        ELSE IF r.value
        THEN Return(r.db, "updated", 0)
        ELSE Return(r.db, "not_updated", 0)

\* update_note without the check that a field is supplied
update_note_unchecked(c, fault) ==
    LET a == c.args
        context_uuid == get_context_uuid_by_name(a.context[1])
    IN  IF c.pc = "start" /\ a.context # None
        THEN IF fault = "execute"
             THEN Return(locked(OpenDb), "raised", 0)
             ELSE IF context_uuid = None
             THEN Return(read(OpenDb), "not_found", 0)
             ELSE Continue([c EXCEPT !.pc = IF a.folder # None THEN "folder" ELSE "write",
                                     !.context_uuid = context_uuid])
        ELSE update_note_folder(c, fault)

\* name == "update_note": the field check, the context lookup if a context is
\* supplied, the folder lookup if a folder is, the update
update_note(c, fault) ==
    LET a == c.args
        context_uuid == get_context_uuid_by_name(a.context[1])
    IN  IF c.pc = "start"
           /\ a.context = None /\ a.folder = None /\ a.title = None /\ a.star = None
        THEN Return(OpenDb, "invalid_argument", 0)
        ELSE IF c.pc = "start" /\ a.context # None
        THEN IF fault = "execute"
             THEN Return(locked(OpenDb), "raised", 0)
             ELSE IF context_uuid = None
             THEN Return(read(OpenDb), "not_found", 0)
             ELSE Continue([c EXCEPT !.pc = IF a.folder # None THEN "folder" ELSE "write",
                                     !.context_uuid = context_uuid])
        ELSE update_note_folder(c, fault)

\* name == "list_contexts": the listing is made outside any try, and the
\* answer shows the name and the identity of each row
call_list_contexts(fault) ==
    IF fault = "execute"
    THEN [db |-> locked(OpenDb), outcome |-> "raised", value |-> <<>>]
    ELSE [db |-> read(OpenDb), outcome |-> "listed",
          value |-> [k \in 1..Len(list_contexts) |->
                        [title |-> list_contexts[k].title, uuid |-> list_contexts[k].uuid]]]

\* name == "list_folders"
call_list_folders(fault) ==
    IF fault = "execute"
    THEN [db |-> locked(OpenDb), outcome |-> "raised", value |-> <<>>]
    ELSE [db |-> read(OpenDb), outcome |-> "listed",
          value |-> [k \in 1..Len(list_folders) |->
                        [title |-> list_folders[k].title, uuid |-> list_folders[k].uuid]]]

\* name == "get_note"
get_note(a, fault) ==
    LET note_record == IF a.note_id # None
                       THEN get_note_by_id(a.note_id[1])
                       ELSE get_note_by_tid(a.note_tid[1])
    IN  IF a.note_id = None /\ a.note_tid = None
        THEN [db |-> OpenDb, outcome |-> "invalid_argument", value |-> None]
        ELSE IF fault = "execute"
        THEN [db |-> locked(OpenDb), outcome |-> "raised", value |-> None]
        ELSE IF note_record = None
        THEN [db |-> read(OpenDb), outcome |-> "not_found", value |-> None]
        ELSE [db |-> read(OpenDb), outcome |-> "found", value |-> note_record]

\* name == "search_notes"
search_notes(a, matches) ==
    LET r == find_notes(a.query, a.limit, a.fts_fails, a.main_fails, matches)
    IN  IF r.raised = "ValueError"
        THEN [db |-> r.db, outcome |-> "invalid_argument", index |-> r.index,
              value |-> <<>>]
        ELSE IF r.raised # "no"
        THEN [db |-> r.db, outcome |-> "backend_failure", index |-> r.index,
              value |-> <<>>]
        ELSE IF r.value = <<>>
        THEN [db |-> r.db, outcome |-> "no_match", index |-> r.index, value |-> <<>>]
        ELSE [db |-> r.db, outcome |-> "matches", index |-> r.index, value |-> r.value]

(* ------------------------------ actions -------------------------------- *)
\* The state once async_main has connected the database: the tables as vimango
\* left them, no transaction open.
Init ==
    /\ task = <<>>
    /\ context = <<[id |-> 1, uuid |-> DEFAULT_CONTEXT_UUID, title |-> "none", deleted |-> FALSE],
                   [id |-> 2, uuid |-> WORK_CONTEXT_UUID, title |-> "work", deleted |-> FALSE]>>
    /\ folder = <<[id |-> 1, uuid |-> DEFAULT_FOLDER_UUID, title |-> "none", deleted |-> FALSE]>>
    /\ in_transaction = FALSE
    /\ fts_db = "connected"
    /\ now = 0
    /\ last = Idle
    /\ call = NoCall
    /\ main_db = "connected"
    /\ journal_mode \in JournalModes
    /\ snapshot = None
    /\ schema_loaded = FALSE
    /\ schema_changed = FALSE
    /\ busy = FALSE
    /\ cached = {}
    /\ malformed = FALSE

\* A tool call is answered before the next one is taken (single-threaded request
\* handling); last holds the answer until then.  The external process writes the
\* file whenever no answer is held, between the statements of a call too.
Ready == last = Idle

\* the server takes tool calls until it shuts down and closes the store
Serving == main_db = "connected"

Respond ==
    /\ last # Idle
    /\ last' = Idle
    /\ UNCHANGED <<task, context, folder, in_transaction, fts_db, now, call, main_db, journal_mode, snapshot, schema_loaded,
                   schema_changed, busy, cached, malformed>>

\* the statement the call is about to run is its INSERT or UPDATE
Writing(c) ==
    \/ c.pc = "write"
    \/ /\ c.op = "update_note" /\ c.pc = "start"
       /\ c.args.context = None /\ c.args.folder = None
       /\ (c.args.title # None \/ c.args.star # None)

\* c's next statement is a name lookup (a SELECT on main_db)
Looking(c) ==
    /\ ~Writing(c)
    /\ \/ c.op = "create_note"
       \/ /\ c.op = "update_note"
          /\ c.args.title = None => c.args.star # None \/ c.args.context # None
                                                     \/ c.args.folder # None
          /\ \/ c.pc = "folder"
             \/ c.pc = "start" /\ (c.args.context # None \/ c.args.folder # None)

\* a SELECT on main_db can find the file locked: on a rollback-journal file on
\* which the connection holds no lock yet (a write-ahead log never makes a reader
\* wait for the writer)
ReadCanFail == journal_mode = "delete" /\ snapshot = None

\* the store can fail any statement: a write when it is executed or committed,
\* a lookup when it is executed; a step that runs no statement cannot fail
FaultsOf(c, Faults) ==
    IF Writing(c) THEN Faults
    ELSE IF Looking(c) /\ ReadCanFail THEN Faults \ {"commit"}
    ELSE {"none"}

\* The connection as a statement leaves it.  The statement cache shows only when
\* a parameter cannot be bound: it is recorded when callers send such arguments.
Leaves(db) ==
    /\ in_transaction' = db.in_transaction
    /\ snapshot' = db.snapshot
    /\ schema_loaded' = db.schema_loaded
    /\ schema_changed' = db.schema_changed
    /\ busy' = db.busy
    /\ cached' = IF malformed THEN db.cached ELSE {}

\* the effect of one statement of a handler: r is what the handler operator gave
HandlerStep(c, r, fault) ==
    /\ task' = r.db.task
    /\ Leaves(r.db)
    /\ call' = r.call
    /\ last' = IF ~r.returned THEN last
               ELSE IF c.op = "create_note"
               THEN [op |-> c.op, args |-> c.args, fault |-> fault,
                     outcome |-> r.outcome, value |-> r.value]
               ELSE [op |-> c.op, args |-> c.args, fault |-> fault,
                     outcome |-> r.outcome]
    /\ UNCHANGED <<context, folder, fts_db, now, main_db, journal_mode, malformed>>

\* the calls of a tool that can run a statement now: a new call with any of the
\* arguments when no call is in progress, else the call in progress if it is one
\* of that tool
Calls(op, Args) ==
    IF call = NoCall THEN {StartCall(op, a) : a \in Args}
    ELSE IF call.op = op THEN {call} ELSE {}

\* the arguments of a call are ones sqlite3 can bind
BindableNote(a) == encodable(a.title) /\ encodable(a.note)
BindableUpdate(a) == fits_int64(a.note_id) /\ (a.title # None => encodable(a.title[1]))

CreateNote(Args, Faults) ==
    \E c \in Calls("create_note", Args) :
        /\ Ready /\ Serving
        /\ malformed \/ BindableNote(c.args)
        /\ c.pc = "start" => Len(task) < MaxNotes
        /\ \E fault \in FaultsOf(c, Faults) :
               HandlerStep(c, create_note(c, fault), fault)

UpdateNote(Args, Faults) ==
    \E c \in Calls("update_note", Args) :
        /\ Ready /\ Serving
        /\ malformed \/ BindableUpdate(c.args)
        /\ \E fault \in FaultsOf(c, Faults) :
               HandlerStep(c, update_note(c, fault), fault)

GetNote(Faults) ==
    \E a \in GetArgs, fault \in IF ReadCanFail THEN Faults ELSE {"none"} :
        LET r == get_note(a, fault)
        IN  /\ Ready /\ call = NoCall /\ Serving
            /\ last' = [op |-> "get_note", args |-> a, fault |-> fault,
                        outcome |-> r.outcome, value |-> r.value]
            /\ Leaves(r.db)
            /\ UNCHANGED <<task, context, folder, fts_db, now, call, main_db,
                           journal_mode, malformed>>

ListContexts(Faults) ==
    \E fault \in IF ReadCanFail THEN Faults ELSE {"none"} :
        LET r == call_list_contexts(fault)
        IN  /\ Ready /\ call = NoCall /\ Serving
            /\ last' = [op |-> "list_contexts", fault |-> fault,
                        outcome |-> r.outcome, value |-> r.value]
            /\ Leaves(r.db)
            /\ UNCHANGED <<task, context, folder, fts_db, now, call, main_db,
                           journal_mode, malformed>>

ListFolders(Faults) ==
    \E fault \in IF ReadCanFail THEN Faults ELSE {"none"} :
        LET r == call_list_folders(fault)
        IN  /\ Ready /\ call = NoCall /\ Serving
            /\ last' = [op |-> "list_folders", fault |-> fault,
                        outcome |-> r.outcome, value |-> r.value]
            /\ Leaves(r.db)
            /\ UNCHANGED <<task, context, folder, fts_db, now, call, main_db,
                           journal_mode, malformed>>

\* The index's ranking for the query is an input: the index is maintained outside
\* the program and is consulted only once the query is accepted and the index is
\* connected and answers.  A join that fails is one that is run, on an answer
\* that is not empty, and shows nothing of the answer: one answer stands for all.
AnswersOf(a) ==
    IF search_notes(a, <<>>).outcome \in {"invalid_argument", "backend_failure"}
    THEN {<<>>}
    ELSE IF a.main_fails THEN {<<Some(1)>>}
    ELSE IndexAnswers

SearchNotes ==
    \E q \in Queries, l \in Limits, f \in BOOLEAN,
       m \in IF ReadCanFail THEN BOOLEAN ELSE {FALSE} :
        LET a == [query |-> q, limit |-> l, fts_fails |-> f, main_fails |-> m]
        IN  Ready /\ call = NoCall /\ Serving /\ \E matches \in AnswersOf(a) :
                LET r == search_notes(a, matches)
                IN  /\ last' = [op |-> "search_notes", args |-> a,
                                outcome |-> r.outcome, index |-> r.index,
                                value |-> r.value]
                    /\ Leaves(r.db)
                    /\ UNCHANGED <<task, context, folder, fts_db, now, call, main_db,
                                   journal_mode, malformed>>

\* VimangoDatabase.close(), run once when the server shuts down: both
\* connections are closed (closing main_db drops a transaction left open) and
\* fts_db is set to None.  No tool call is in progress and none follows.
Close ==
    /\ Ready /\ call = NoCall /\ Serving
    /\ main_db' = "closed"
    /\ fts_db' = "None"
    /\ in_transaction' = FALSE
    /\ snapshot' = None
    /\ schema_loaded' = FALSE
    /\ schema_changed' = FALSE
    /\ busy' = FALSE
    /\ cached' = {}
    /\ UNCHANGED <<task, context, folder, now, last, call, journal_mode, malformed>>

\* The other process commits a write unless the connection holds a shared lock
\* on a rollback-journal file, which an open transaction does once it has read.
ExternalMayWrite == ~(journal_mode = "delete" /\ snapshot # None)

\* the external sync process gives an unsynced note its sync id: the next one
\* the server has not given out
Sync ==
    \E i \in 1..Len(task), t \in Tids :
        /\ Ready /\ ExternalMayWrite
        /\ task[i].tid = None
        /\ \A j \in 1..Len(task) : task[j].tid # Some(t)
        /\ \A u \in 1..(t - 1) : \E j \in 1..Len(task) : task[j].tid = Some(u)
        /\ task' = [task EXCEPT ![i].tid = Some(t)]
        /\ last' = Idle
        /\ UNCHANGED <<context, folder, in_transaction, fts_db, now, call, main_db, journal_mode, snapshot, schema_loaded,
                   schema_changed, busy, cached, malformed>>

\* vimango soft-deletes a note
ExternalDelete ==
    \E i \in 1..Len(task) :
        /\ Ready /\ ExternalMayWrite
        /\ ~task[i].deleted
        /\ task' = [task EXCEPT ![i].deleted = TRUE]
        /\ last' = Idle
        /\ UNCHANGED <<context, folder, in_transaction, fts_db, now, call, main_db, journal_mode, snapshot, schema_loaded,
                   schema_changed, busy, cached, malformed>>

\* vimango archives a note
ExternalArchive ==
    \E i \in 1..Len(task) :
        /\ Ready /\ ExternalMayWrite
        /\ ~task[i].archived
        /\ task' = [task EXCEPT ![i].archived = TRUE]
        /\ last' = Idle
        /\ UNCHANGED <<context, folder, in_transaction, fts_db, now, call, main_db, journal_mode, snapshot, schema_loaded,
                   schema_changed, busy, cached, malformed>>

\* vimango soft-deletes a context other than the reserved "none"
ExternalDeleteContext ==
    \E i \in 1..Len(context) :
        /\ Ready /\ ExternalMayWrite
        /\ ~context[i].deleted
        /\ context[i].uuid # DEFAULT_CONTEXT_UUID
        /\ context' = [context EXCEPT ![i].deleted = TRUE]
        /\ last' = Idle
        /\ UNCHANGED <<task, folder, in_transaction, fts_db, now, call, main_db, journal_mode, snapshot, schema_loaded,
                   schema_changed, busy, cached, malformed>>

\* vimango soft-deletes a folder other than the reserved "none"
ExternalDeleteFolder ==
    \E i \in 1..Len(folder) :
        /\ Ready /\ ExternalMayWrite
        /\ ~folder[i].deleted
        /\ folder[i].uuid # DEFAULT_FOLDER_UUID
        /\ folder' = [folder EXCEPT ![i].deleted = TRUE]
        /\ last' = Idle
        /\ UNCHANGED <<task, context, in_transaction, fts_db, now, call, main_db, journal_mode, snapshot, schema_loaded,
                   schema_changed, busy, cached, malformed>>

(* The write path: notes are created and updated with every combination of the  *)
(* inputs, writes may fail, vimango deletes and archives notes and contexts.    *)
Next ==
    \/ CreateNote(CreateArgs, WriteFaults)
    \/ UpdateNote(UpdateArgs, WriteFaults)
    \/ ExternalDelete
    \/ ExternalArchive
    \/ ExternalDeleteContext
    \/ Close
    \/ Respond

Spec == Init /\ [][Next]_vars

(* The read path: lookups and searches over notes that are created, synced,     *)
(* deleted and archived; the index is connected or not.                         *)
ReadCreateArgs ==
    [title : {"Buy milk"}, note : {""}, context : {"none"}, folder : {"none"},
     star : {FALSE}]

\* updates that write a field without changing what a lookup or a search shows
ReadUpdateArgs ==
    [note_id : 1..MaxNotes, context : {None}, folder : {None},
     title : {None}, star : {Some(FALSE)}]

\* No call of the read path leaves a transaction open, so that the journal mode
\* shows only in whether a read can find the file locked: the rollback journal,
\* where it can, is taken.
InitRead ==
    /\ task = <<>>
    /\ context = <<[id |-> 1, uuid |-> DEFAULT_CONTEXT_UUID, title |-> "none", deleted |-> FALSE],
                   [id |-> 2, uuid |-> WORK_CONTEXT_UUID, title |-> "work", deleted |-> FALSE]>>
    /\ folder = <<[id |-> 1, uuid |-> DEFAULT_FOLDER_UUID, title |-> "none", deleted |-> FALSE]>>
    /\ in_transaction = FALSE
    /\ fts_db \in {"connected", "None"}
    /\ now = 0
    /\ last = Idle
    /\ call = NoCall
    /\ main_db = "connected"
    /\ journal_mode = "delete"
    /\ snapshot = None
    /\ schema_loaded = FALSE
    /\ schema_changed = FALSE
    /\ busy = FALSE
    /\ cached = {}
    /\ malformed = FALSE

NextRead ==
    \/ CreateNote(ReadCreateArgs, {"none"})
    \/ UpdateNote(ReadUpdateArgs, {"none"})
    \/ Sync
    \/ ExternalDelete
    \/ ExternalArchive
    \/ GetNote(ReadFaults)
    \/ SearchNotes
    \/ ListContexts(ReadFaults)
    \/ ListFolders(ReadFaults)
    \/ Close
    \/ Respond

SpecRead == InitRead /\ [][NextRead]_vars

(* Name resolution: notes are created and moved under names typed in either    *)
(* letter case while vimango deletes contexts and folders.                      *)
NameCreateArgs ==
    [title : {"Buy milk"}, note : {""}, context : {"none", "work", "Work"},
     folder : {"home", "Home"}, star : {FALSE}]

NameUpdateArgs ==
    [note_id : 1..MaxNotes, context : {None, Some("work"), Some("Work")},
     folder : {None, Some("none"), Some("None")}, title : {None},
     star : {Some(TRUE)}]

InitNames ==
    /\ task = <<>>
    /\ context = <<[id |-> 1, uuid |-> DEFAULT_CONTEXT_UUID, title |-> "none", deleted |-> FALSE],
                   [id |-> 2, uuid |-> WORK_CONTEXT_UUID, title |-> "work", deleted |-> FALSE]>>
    /\ folder = <<[id |-> 1, uuid |-> DEFAULT_FOLDER_UUID, title |-> "none", deleted |-> FALSE],
                  [id |-> 2, uuid |-> HOME_FOLDER_UUID, title |-> "home", deleted |-> FALSE]>>
    /\ in_transaction = FALSE
    /\ fts_db = "connected"
    /\ now = 0
    /\ last = Idle
    /\ call = NoCall
    /\ main_db = "connected"
    /\ journal_mode \in JournalModes
    /\ snapshot = None
    /\ schema_loaded = FALSE
    /\ schema_changed = FALSE
    /\ busy = FALSE
    /\ cached = {}
    /\ malformed = FALSE

NextNames ==
    \/ CreateNote(NameCreateArgs, {"none"})
    \/ UpdateNote(NameUpdateArgs, {"none"})
    \/ ListContexts({"none"})
    \/ ListFolders({"none"})
    \/ ExternalDeleteContext
    \/ ExternalDeleteFolder
    \/ Close
    \/ Respond

SpecNames == InitNames /\ [][NextNames]_vars

(* The clock: datetime('now') has a resolution of one second, and a second may  *)
(* or may not pass between two calls.                                           *)
Tick ==
    /\ Ready
    /\ now < MaxClock
    /\ now' = now + 1
    /\ last' = Idle
    /\ UNCHANGED <<task, context, folder, in_transaction, fts_db, call, main_db, journal_mode, snapshot, schema_loaded,
                   schema_changed, busy, cached, malformed>>

\* update_note as in the spec's example
ClockUpdateArgs ==
    [note_id : 1..MaxNotes, context : {None}, folder : {None}, title : {None},
     star : {Some(TRUE)}]

NextClock ==
    \/ CreateNote(ReadCreateArgs, {"none"})
    \/ UpdateNote(ClockUpdateArgs, {"none"})
    \/ Tick
    \/ ExternalArchive
    \/ Close
    \/ Respond

SpecClock == Init /\ [][NextClock]_vars

(* External interleaving: vimango deletes a context or a folder between the     *)
(* lookups and the write of a call that names it.                               *)
RaceCreateArgs ==
    [title : {"Buy milk"}, note : {""}, context : {"none", "work"},
     folder : {"none", "home"}, star : {FALSE}]

RaceUpdateArgs ==
    [note_id : 1..MaxNotes, context : {None, Some("work")},
     folder : {None, Some("home")}, title : {None}, star : {None}]

NextRace ==
    \/ CreateNote(RaceCreateArgs, {"none"})
    \/ UpdateNote(RaceUpdateArgs, {"none"})
    \/ ExternalDeleteContext
    \/ ExternalDeleteFolder
    \/ Close
    \/ Respond

SpecRace == InitNames /\ [][NextRace]_vars

(* Arguments the store cannot bind: a title or a body with a lone surrogate, a  *)
(* note id beyond 64 bits; writes may fail as well.                             *)
InitBind ==
    /\ task = <<>>
    /\ context = <<[id |-> 1, uuid |-> DEFAULT_CONTEXT_UUID, title |-> "none", deleted |-> FALSE],
                   [id |-> 2, uuid |-> WORK_CONTEXT_UUID, title |-> "work", deleted |-> FALSE]>>
    /\ folder = <<[id |-> 1, uuid |-> DEFAULT_FOLDER_UUID, title |-> "none", deleted |-> FALSE]>>
    /\ in_transaction = FALSE
    /\ fts_db = "connected"
    /\ now = 0
    /\ last = Idle
    /\ call = NoCall
    /\ main_db = "connected"
    /\ journal_mode \in JournalModes
    /\ snapshot = None
    /\ schema_loaded = FALSE
    /\ schema_changed = FALSE
    /\ busy = FALSE
    /\ cached = {}
    /\ malformed = TRUE

BindCreateArgs ==
    [title : {"Buy milk", LoneSurrogate}, note : {"2%", LoneSurrogate},
     context : {"none"}, folder : {"none"}, star : {FALSE}]

BindUpdateArgs ==
    [note_id : (1..MaxNotes) \cup {INT64_OVERFLOW}, context : {None},
     folder : {None}, title : {None, Some("Call mom"), Some(LoneSurrogate)},
     star : {None, Some(TRUE)}]

NextBind ==
    \/ CreateNote(BindCreateArgs, WriteFaults)
    \/ UpdateNote(BindUpdateArgs, WriteFaults)
    \/ ExternalDelete
    \/ Close
    \/ Respond

SpecBind == InitBind /\ [][NextBind]_vars

(* A transaction left open: an update whose note id the store cannot bind      *)
(* leaves one, and the lookups and searches that follow read inside it while    *)
(* vimango syncs, deletes and archives notes.                                   *)
StaleUpdateArgs ==
    [note_id : {1, INT64_OVERFLOW}, context : {None}, folder : {None},
     title : {None}, star : {Some(FALSE)}]

NextStale ==
    \/ CreateNote(ReadCreateArgs, {"none"})
    \/ UpdateNote(StaleUpdateArgs, {"none"})
    \/ Sync
    \/ ExternalDelete
    \/ ExternalArchive
    \/ GetNote({"none"})
    \/ SearchNotes
    \/ ListContexts({"none"})
    \/ ListFolders({"none"})
    \/ Close
    \/ Respond

SpecStale == InitBind /\ [][NextStale]_vars

(* ------------------------------ claims --------------------------------- *)
Min(S) == CHOOSE x \in S : \A y \in S : x <= y

\* the number of characters from the first to the last non-blank one
TrimmedLen(q) ==
    LET solid == {i \in 1..Len(q) : q[i] \notin Whitespace}
    IN  IF solid = {} THEN 0 ELSE Max(solid) - Min(solid) + 1

Searched == last.op = "search_notes"
Answered == Searched /\ last.outcome \in {"matches", "no_match"}
NoFieldSupplied(a) == a.context = None /\ a.folder = None /\ a.title = None /\ a.star = None

\* the names a create_note or update_note call supplies do not all resolve
NameUnresolved(op, a) ==
    IF op = "create_note"
    THEN get_context_uuid_by_name(a.context) = None
         \/ get_folder_uuid_by_name(a.folder) = None
    ELSE \/ a.context # None /\ get_context_uuid_by_name(a.context[1]) = None
         \/ a.folder # None /\ get_folder_uuid_by_name(a.folder[1]) = None

\* C1: the ranks find_notes emits are strictly increasing in output order, and
\* each emitted rank is the 1-based position, in the list of sync ids the index
\* returned, of the sync id of the note it is attached to.
C1_RanksFollowIndex ==
    (Searched /\ last.outcome = "matches") =>
        \A i \in 1..Len(last.value) :
            /\ last.value[i].rank \in 1..Len(last.index)
            /\ last.index[last.value[i].rank] = last.value[i].tid
            /\ \E j \in 1..Len(task) :
                   task[j].id = last.value[i].id /\ task[j].tid = last.value[i].tid
            /\ i < Len(last.value) => last.value[i].rank < last.value[i + 1].rank

\* two notes are emitted with ranks 1 and 3: the index's second entry was dropped
C1_Witness ==
    /\ Searched /\ last.outcome = "matches"
    /\ Len(last.value) = 2
    /\ last.value[1].rank = 1 /\ last.value[2].rank = 3
    /\ last.value[1].id > last.value[2].id

\* C2: every note find_notes emits is visible at the time of the query (not
\* deleted, not archived) and carries the sync id the index matched; a note that
\* is deleted, archived or still without a sync id is never emitted.  Inside a
\* transaction an earlier update left open the code emits a note that vimango
\* has deleted since.
C2_SearchEmitsVisible ==
    Answered =>
        /\ \A i \in 1..Len(last.value) :
               \E j \in 1..Len(task) :
                   /\ task[j].id = last.value[i].id
                   /\ ~task[j].deleted /\ ~task[j].archived
                   /\ task[j].tid # None
                   /\ last.value[i].tid = task[j].tid
                   /\ \E k \in 1..Len(last.index) : last.index[k] = task[j].tid
        /\ \A j \in 1..Len(task) :
               (task[j].deleted \/ task[j].archived \/ task[j].tid = None) =>
                   \A i \in 1..Len(last.value) : last.value[i].id # task[j].id

\* C3: a successful create_note returns a local id no other note has, and
\* get_note on that id, before any other mutation, returns the title, the body
\* and the context and folder names that were supplied.
C3_CreateThenGet ==
    (last.op = "create_note" /\ last.outcome = "created") =>
        LET got == get_note([note_id |-> Some(last.value), note_tid |-> None], "none")
        IN  /\ Cardinality({j \in 1..Len(task) : task[j].id = last.value}) = 1
            /\ got.outcome = "found"
            /\ got.value[1].id = last.value
            /\ got.value[1].title = last.args.title
            /\ got.value[1].note = last.args.note
            /\ got.value[1].context_title = last.args.context
            /\ got.value[1].folder_title = last.args.folder

\* a second note was created, in the context "work"
C3_Witness ==
    /\ last.op = "create_note" /\ last.outcome = "created"
    /\ Len(task) = 2
    /\ last.value = 2
    /\ last.args.context = "work"
    /\ last.args.title # task[1].title

\* the step runs a statement of a create_note or update_note call
Stepped == call' # call \/ last'.op \in {"create_note", "update_note"}

\* the call whose statement the step runs: the one in progress, or a new one
Stepping ==
    IF call # NoCall THEN call
    ELSE IF call' # NoCall THEN StartCall(call'.op, call'.args)
    ELSE StartCall(last'.op, last'.args)

\* the statement c is about to run is a lookup of a supplied name, and the name
\* does not resolve
LookupFails(c) ==
    IF c.op = "create_note"
    THEN \/ c.pc = "start" /\ get_context_uuid_by_name(c.args.context) = None
         \/ c.pc = "folder" /\ get_folder_uuid_by_name(c.args.folder) = None
    ELSE /\ ~NoFieldSupplied(c.args)
         /\ \/ /\ c.pc = "start" /\ c.args.context # None
               /\ get_context_uuid_by_name(c.args.context[1]) = None
            \/ /\ c.pc = "folder" \/ (c.pc = "start" /\ c.args.context = None)
               /\ c.args.folder # None
               /\ get_folder_uuid_by_name(c.args.folder[1]) = None

\* the store answers the statement the step runs (a step that continues the call
\* has run its statement)
StoreAnswers == call' = NoCall => last'.fault = "none"

\* C4: a create_note or update_note call that supplies a context or folder name
\* that does not resolve when the call looks it up (the store answering the
\* lookup) ends not-found and leaves the task table as it was, also when the
\* other supplied name resolved.
C4_UnresolvedNameWritesNothing ==
    [][(Stepped /\ LookupFails(Stepping) /\ StoreAnswers)
        => /\ call' = NoCall
           /\ last'.op = Stepping.op
           /\ last'.outcome = "not_found"
           /\ task' = task]_vars

\* create_note ended not-found for the folder although the context resolved,
\* with a note already in the table
C4_Witness ==
    /\ last.op = "create_note" /\ last.outcome = "not_found"
    /\ get_context_uuid_by_name(last.args.context) # None
    /\ last.args.context = "work"
    /\ get_folder_uuid_by_name(last.args.folder) = None
    /\ Len(task) = 1

\* C5: update_note with a field supplied and a local id that resolves to no
\* visible row (none, deleted or archived) returns updated = false and changes
\* no field of any note.  The code updates an archived row.
C5_UpdateInvisibleIsNoop ==
    [][(last'.op = "update_note"
            /\ ~NoFieldSupplied(last'.args)
            /\ ~NameUnresolved("update_note", last'.args)
            /\ last'.fault = "none"
            /\ get_note_by_id(last'.args.note_id) = None)
        => (last'.outcome = "not_updated" /\ task' = task)]_vars

\* C6: update_note with no field supplied is rejected as InvalidArgument, which
\* is not the updated = false a local id matching no row gets, and changes
\* nothing in the store, whether or not the local id exists.
C6_EmptyUpdateRejected ==
    [][/\ (last'.op = "update_note" /\ NoFieldSupplied(last'.args))
            => /\ last'.outcome = "invalid_argument"
               /\ UNCHANGED <<task, context, folder, in_transaction>>
       /\ (last'.op = "update_note"
               /\ ~NoFieldSupplied(last'.args)
               /\ ~NameUnresolved("update_note", last'.args)
               /\ last'.fault = "none"
               /\ \A j \in 1..Len(task) : task[j].id # last'.args.note_id)
            => last'.outcome = "not_updated"]_vars

\* an update with no field was rejected for a note that exists and is visible
C6_Witness ==
    /\ last.op = "update_note" /\ NoFieldSupplied(last.args)
    /\ last.outcome = "invalid_argument"
    /\ get_note_by_id(last.args.note_id) # None

\* C7: after a create_note that fails during the write the task table holds the
\* rows it held before, and after any create_note or update_note no write
\* transaction of the call is open on the connection.  The code rolls back on
\* sqlite3.DatabaseError only: an argument the store cannot bind leaves the
\* transaction open.
C7_WritesAtomic ==
    [][/\ (last'.op = "create_note" /\ last'.outcome = "error") => task' = task
       /\ last'.op \in {"create_note", "update_note"} => ~in_transaction']_vars

\* C8: a search whose query has fewer than 3 characters once trimmed is rejected
\* as InvalidArgument, whatever the state of the store and of the index.
C8_ShortQueryRejected ==
    (Searched /\ TrimmedLen(last.args.query) < 3) => last.outcome = "invalid_argument"

\* a query of 3 characters, 2 once trimmed, was rejected while the index fails
C8_Witness ==
    /\ Searched /\ last.outcome = "invalid_argument"
    /\ Len(last.args.query) = 3
    /\ TrimmedLen(last.args.query) = 2
    /\ last.args.fts_fails
    /\ Len(task) > 0

\* C9: for a query of at least 3 trimmed characters, a search with the index not
\* connected or its query failing ends in a search-backend failure: neither
\* InvalidArgument nor a successful result with zero matches.
C9_BackendFailureSurfaced ==
    (Searched /\ TrimmedLen(last.args.query) >= 3
        /\ (fts_db = "None" \/ last.args.fts_fails))
    => last.outcome = "backend_failure"

\* the index is connected and its query failed
C9_Witness ==
    /\ Searched /\ last.outcome = "backend_failure"
    /\ fts_db = "connected"
    /\ last.args.fts_fails
    /\ TrimmedLen(last.args.query) >= 3

\* the rows a get_note call names, by local id if given, else by sync id
Named(a) ==
    {j \in 1..Len(task) :
        IF a.note_id # None THEN task[j].id = a.note_id[1]
        ELSE a.note_tid # None /\ task[j].tid = a.note_tid}

\* C10: get_note, by local id or by sync id, returns a note only if it is
\* currently neither deleted nor archived, and returns not-found for a note that
\* is.  Inside a transaction an earlier update left open the code returns a note
\* that vimango has deleted since.
C10_GetHonorsVisibility ==
    (last.op = "get_note") =>
        /\ last.outcome = "found" =>
               \E j \in Named(last.args) :
                   /\ ~task[j].deleted /\ ~task[j].archived
                   /\ last.value[1].id = task[j].id
        /\ (\A j \in Named(last.args) : task[j].deleted \/ task[j].archived)
               => last.outcome \in {"not_found", "invalid_argument"}
        /\ last.outcome = "invalid_argument"
               <=> (last.args.note_id = None /\ last.args.note_tid = None)

\* the identity a name stands for: the first row of the listing whose display
\* name equals it up to letter case
Resolve(listing, name) ==
    LET hits == SelectSeq(listing, LAMBDA r : nocase(r.title) = nocase(name))
    IN  IF hits = <<>> THEN None ELSE Some(hits[1].uuid)

\* C11: a context or folder name resolves, case-insensitively, to the first
\* visible row of the listing with that display name, and to not-found when only
\* deleted rows carry it: create_note ends not-found exactly when a name has no
\* such row, and otherwise writes the identities of those rows.  The code
\* compares the names exactly.
C11_NamesResolveNocase ==
    (last.op = "create_note") =>
        LET c == Resolve(list_contexts, last.args.context)
            f == Resolve(list_folders, last.args.folder)
        IN  /\ last.outcome = "not_found" <=> (c = None \/ f = None)
            /\ last.outcome = "created" =>
                   \E j \in 1..Len(task) :
                       /\ task[j].id = last.value
                       /\ Some(task[j].context_uuid) = c
                       /\ Some(task[j].folder_uuid) = f

\* C12: after an update_note call that returned updated = true, the updated
\* note's modified_at is strictly greater than its created_at, however soon
\* after the creation the update was made.  The code stamps both with
\* datetime('now'), which is the same within a second.
C12_ModifiedAfterCreated ==
    (last.op = "update_note" /\ last.outcome = "updated") =>
        \A j \in 1..Len(task) :
            task[j].id = last.args.note_id => task[j].modified > task[j].added

\* C13: a successful update_note on note n changes, of n, only the supplied
\* fields among context, folder, title and starred, plus modified_at: its other
\* fields, body, local id, sync id, deleted and archived flags and created_at
\* are unchanged, and so is every other note, context and folder.
C13_UpdateFrame ==
    [][(last'.op = "update_note" /\ last'.outcome = "updated") =>
        /\ context' = context
        /\ folder' = folder
        /\ Len(task') = Len(task)
        /\ \A j \in 1..Len(task) :
               IF task[j].id = last'.args.note_id
               THEN /\ task'[j].id = task[j].id
                    /\ task'[j].tid = task[j].tid
                    /\ task'[j].note = task[j].note
                    /\ task'[j].deleted = task[j].deleted
                    /\ task'[j].archived = task[j].archived
                    /\ task'[j].added = task[j].added
                    /\ last'.args.context = None => task'[j].context_uuid = task[j].context_uuid
                    /\ last'.args.folder = None => task'[j].folder_uuid = task[j].folder_uuid
                    /\ last'.args.title = None => task'[j].title = task[j].title
                    /\ last'.args.star = None => task'[j].star = task[j].star
               ELSE task'[j] = task[j]]_vars

\* the second of two notes, retitled and starred earlier, was moved to the
\* context "work" by an update that supplied the context alone
C13_Witness ==
    /\ last.op = "update_note" /\ last.outcome = "updated"
    /\ last.args.note_id = 2
    /\ last.args.context = Some("work") /\ last.args.folder = None
    /\ last.args.title = None /\ last.args.star = None
    /\ Len(task) = 2
    /\ task[2].context_uuid = WORK_CONTEXT_UUID
    /\ task[2].star /\ task[2].title = "Call mom"
    /\ ~task[1].star

\* a row of the table carries the identity and is not deleted
Live(rows, uuid) == \E i \in 1..Len(rows) : rows[i].uuid = uuid /\ ~rows[i].deleted

\* C14: with vimango deleting contexts and folders between the statements of a
\* create_note or update_note call, every context and folder identity the call
\* writes to a note names a context/folder that is not deleted when the write
\* commits.  The code writes the identity it resolved earlier without looking
\* again.
C14_RefsLiveAtCommit ==
    /\ (last.op = "create_note" /\ last.outcome = "created") =>
           \A j \in 1..Len(task) :
               task[j].id = last.value =>
                   /\ Live(context, task[j].context_uuid)
                   /\ Live(folder, task[j].folder_uuid)
    /\ (last.op = "update_note" /\ last.outcome = "updated") =>
           \A j \in 1..Len(task) :
               task[j].id = last.args.note_id =>
                   /\ last.args.context # None => Live(context, task[j].context_uuid)
                   /\ last.args.folder # None => Live(folder, task[j].folder_uuid)

====
